---- MODULE Spec2Model ----
(***************************************************************************)
(* Model of scripts/generate_asyncapi.py: the conversion of an Avro record *)
(* schema to a JSON Schema fragment (avro_to_json_schema and its two inner *)
(* functions convert_type and convert_record).                             *)
(*                                                                         *)
(* Python values are tagged records: [py |-> "str", v |-> s], [py |->      *)
(* "int", v |-> n], [py |-> "list", v |-> <<...>>], [py |-> "dict", d |->  *)
(* f] where DOMAIN f is the set of keys of the dict, and [py |-> "None"].  *)
(* A JSON Schema fragment built by the code is a record whose domain is    *)
(* the set of keys the code has set; `type` and `format` hold the code's   *)
(* string literals, `description`, `default`, `enum` and the entries of    *)
(* `required` hold Python values, `properties` is the insertion-ordered    *)
(* dict as a sequence of [key, value] entries.  A raised exception is the  *)
(* record [exception |-> name]; it propagates through every caller.        *)
(***************************************************************************)
EXTENDS Integers, Sequences, FiniteSets, TLC

VARIABLES pc, avro_schema, result

\* history of the calls of avro_to_json_schema made by one process: one
\* earlier call, with its argument and its result, and the number of calls
\* completed since
VARIABLES earlier

\* one run of the generator script: position, parsed arguments, content of
\* schemas/order_created.avsc, the locals of generate_*_spec, what the
\* registry answered, the returned document, lines printed to stderr and
\* URLs opened
VARIABLES main_pc, args, local_file, order_created, response, fetched_schema,
          spec, stderr, requests

\* the consumer service: messages delivered to handle_order_created, the
\* position of the handler for each, and the events published so far
VARIABLES messages, task, published

convVars == <<pc, avro_schema, result, earlier>>

docVars == <<main_pc, args, local_file, order_created, response, fetched_schema,
             spec, stderr, requests>>

handlerVars == <<messages, task, published>>

vars == <<convVars, docVars, handlerVars>>

(* ------------------------------ bounds --------------------------------- *)

MaxDepth == 2

MaxUnionLen == 3

MaxFields == 2

MaxOthers == 1

MaxMessages == 2

(* --------------------------- Python values ------------------------------ *)

None == [py |-> "None"]

Str(s) == [py |-> "str", v |-> s]

Num(n) == [py |-> "int", v |-> n]

List(q) == [py |-> "list", v |-> q]

Dict(f) == [py |-> "dict", d |-> f]

isinstance(x, t) == x.py = t

HasKey(x, k) == k \in DOMAIN x.d

get(x, k) == IF k \in DOMAIN x.d THEN x.d[k] ELSE None

Truthy(x) ==
  CASE x.py = "None" -> FALSE
    [] x.py = "str"  -> x.v # ""
    [] x.py = "int"  -> x.v # 0
    [] x.py = "list" -> Len(x.v) > 0
    [] x.py = "dict" -> DOMAIN x.d # {}

Raise(e) == [exception |-> e]

IsExc(r) == "exception" \in DOMAIN r

\* x[k] for a key k: KeyError when a dict lacks the key, TypeError when x
\* is a str, a list, an int or None (a str key indexes none of them).
Subscript(x, k) ==
  IF isinstance(x, "dict")
  THEN IF HasKey(x, k) THEN x.d[k] ELSE Raise("KeyError")
  ELSE Raise("TypeError")

\* a dict that puts every new key first
DictSet_front(d, k, v) ==
  IF \E i \in 1..Len(d) : d[i].key = k
  THEN [i \in 1..Len(d) |-> IF d[i].key = k THEN [key |-> k, value |-> v] ELSE d[i]]
  ELSE <<[key |-> k, value |-> v]>> \o d

\* d[k] = v on an insertion-ordered dict: a key already present keeps its
\* position and takes the new value, a new key goes to the end.
DictSet(d, k, v) ==
  IF \E i \in 1..Len(d) : d[i].key = k
  THEN [i \in 1..Len(d) |-> IF d[i].key = k THEN [key |-> k, value |-> v] ELSE d[i]]
  ELSE Append(d, [key |-> k, value |-> v])

Keys(d) == [i \in 1..Len(d) |-> d[i].key]

(* ------------------------- avro_to_json_schema -------------------------- *)

\* the table with long taken for a floating-point kind
avro_type_map_long_number ==
  [string |-> "string", int |-> "integer", long |-> "number",
   float |-> "number", double |-> "number", boolean |-> "boolean",
   bytes |-> "string", null |-> "null"]

avro_type_map ==
  [string |-> "string", int |-> "integer", long |-> "integer",
   float |-> "number", double |-> "number", boolean |-> "boolean",
   bytes |-> "string", null |-> "null"]

\* convert_type on a str
convert_str(avro_type) ==
  IF avro_type.v \in DOMAIN avro_type_map
  THEN [type |-> avro_type_map[avro_type.v]]
  ELSE [type |-> "string"]

\* the bytes test ahead of the logical-type tests
convert_tagged_bytes_first(avro_type) ==
  IF get(avro_type, "type") = Str("bytes")
  THEN [type |-> "string"]
  ELSE IF get(avro_type, "logicalType") = Str("timestamp-millis")
  THEN [type |-> "string", format |-> "date-time"]
  ELSE IF get(avro_type, "logicalType") = Str("date")
  THEN [type |-> "string", format |-> "date"]
  ELSE IF get(avro_type, "logicalType") = Str("decimal")
  THEN [type |-> "string", description |-> Str("Decimal value as string")]
  ELSE IF get(avro_type, "type") = Str("long")
  THEN IF Truthy(get(avro_type, "logicalType"))
       THEN [type |-> "string", format |-> "date-time"]
       ELSE [type |-> "integer"]
  ELSE IF get(avro_type, "type") = Str("int")
  THEN IF Truthy(get(avro_type, "logicalType"))
       THEN [type |-> "string", format |-> "date"]
       ELSE [type |-> "integer"]
  ELSE [type |-> "string"]

\* convert_type on a dict that is no record, array, map or enum: the
\* logical-type tests, then the bytes/long/int tests, then the final
\* fallback of the function.
convert_tagged(avro_type) ==
  IF get(avro_type, "logicalType") = Str("timestamp-millis")
  THEN [type |-> "string", format |-> "date-time"]
  ELSE IF get(avro_type, "logicalType") = Str("date")
  THEN [type |-> "string", format |-> "date"]
  ELSE IF get(avro_type, "logicalType") = Str("decimal")
  THEN [type |-> "string", description |-> Str("Decimal value as string")]
  ELSE IF get(avro_type, "type") = Str("bytes")
  THEN [type |-> "string"]
  ELSE IF get(avro_type, "type") = Str("long")
  THEN IF Truthy(get(avro_type, "logicalType"))
       THEN [type |-> "string", format |-> "date-time"]
       ELSE [type |-> "integer"]
  ELSE IF get(avro_type, "type") = Str("int")
  THEN IF Truthy(get(avro_type, "logicalType"))
       THEN [type |-> "string", format |-> "date"]
       ELSE [type |-> "integer"]
  ELSE [type |-> "string"]

\* the null-marker taken to be the first member of every union
non_null_tail(avro_type) == IF Len(avro_type.v) = 0 THEN <<>> ELSE Tail(avro_type.v)

\* non_null = [t for t in avro_type if t != "null"]
non_null(avro_type) == SelectSeq(avro_type.v, LAMBDA t : t # Str("null"))

\* "null" in field_type
contains_null(field_type) == \E i \in 1..Len(field_type.v) : field_type.v[i] = Str("null")

\* optional only when one alternative is left beside the null-marker
is_optional_single(field_type) ==
  /\ isinstance(field_type, "list")
  /\ contains_null(field_type)
  /\ Len(SelectSeq(field_type.v, LAMBDA t : t # Str("null"))) = 1

\* is_optional = isinstance(field_type, list) and "null" in field_type
is_optional(field_type) == isinstance(field_type, "list") /\ contains_null(field_type)

\* a default of null taken for no default
is_required_null_default(field) ==
  ~is_optional(field.d.type) /\ get(field, "default") = None

\* the default left out of the test
is_required_by_type(field) == ~is_optional(field.d.type)

\* the test guarding required.append(field_name)
is_required(field) == ~is_optional(field.d.type) /\ ~HasKey(field, "default")

\* the items left unconverted
array_fragment_untyped(items) == [type |-> "array", items |-> [type |-> "string"]]

array_fragment(items) == [type |-> "array", items |-> items]

map_fragment(values) == [type |-> "object", additionalProperties |-> values]

enum_fragment(symbols) == [type |-> "string", enum |-> symbols]

\* prop["description"] = field["doc"] when field.get("doc") is truthy
with_doc(prop, field) ==
  IF Truthy(get(field, "doc"))
  THEN [k \in DOMAIN prop \cup {"description"} |->
          IF k = "description" THEN field.d.doc ELSE prop[k]]
  ELSE prop

\* prop["default"] = field["default"] when the key is there and not None
with_default(prop, field) ==
  IF HasKey(field, "default") /\ field.d.default # None
  THEN [k \in DOMAIN prop \cup {"default"} |->
          IF k = "default" THEN field.d.default ELSE prop[k]]
  ELSE prop

\* the result dict of convert_record
record_result(record, properties, required) ==
  LET base == [type |-> "object", properties |-> properties]
      req  == IF Len(required) > 0
              THEN [k \in DOMAIN base \cup {"required"} |->
                      IF k = "required" THEN required ELSE base[k]]
              ELSE base
  IN IF Truthy(get(record, "doc"))
     THEN [k \in DOMAIN req \cup {"description"} |->
             IF k = "description" THEN record.d.doc ELSE req[k]]
     ELSE req

RECURSIVE convert_type(_)
RECURSIVE convert_record(_)
RECURSIVE convert_fields(_, _, _, _)

\* the body of `for field in record.get("fields", [])`, from field number i
\* on, with the properties and required accumulated so far
convert_fields(fields, i, properties, required) ==
  IF i > Len(fields)
  THEN [properties |-> properties, required |-> required]
  ELSE LET field      == fields[i]
           field_name == Subscript(field, "name")
           field_type == Subscript(field, "type")
       IN IF IsExc(field_name) THEN field_name
          ELSE IF IsExc(field_type) THEN field_type
          ELSE LET req  == IF is_required(field)
                           THEN Append(required, field_name)
                           ELSE required
                   prop == convert_type(field_type)
               IN IF IsExc(prop) THEN prop
                  ELSE convert_fields(fields, i + 1,
                         DictSet(properties, field_name,
                                 with_default(with_doc(prop, field), field)),
                         req)

\* `required` kept from one call to the next (a list made once, not per call)
convert_record_shared(record) ==
  IF ~isinstance(record, "dict")
  THEN Raise("AttributeError")
  ELSE LET fields == IF HasKey(record, "fields") THEN record.d.fields.v ELSE <<>>
           kept   == IF earlier # None /\ "required" \in DOMAIN earlier.result
                     THEN earlier.result.required ELSE <<>>
           acc    == convert_fields(fields, 1, <<>>, kept)
       IN IF IsExc(acc) THEN acc
          ELSE record_result(record, acc.properties, acc.required)

convert_record(record) ==
  IF ~isinstance(record, "dict")
  THEN Raise("AttributeError")
  ELSE LET fields == IF HasKey(record, "fields") THEN record.d.fields.v ELSE <<>>
           acc    == convert_fields(fields, 1, <<>>, <<>>)
       IN IF IsExc(acc) THEN acc
          ELSE record_result(record, acc.properties, acc.required)

convert_type(avro_type) ==
  IF isinstance(avro_type, "str")
  THEN convert_str(avro_type)
  ELSE IF isinstance(avro_type, "dict")
  THEN IF get(avro_type, "type") = Str("record")
       THEN convert_record(avro_type)
       ELSE IF get(avro_type, "type") = Str("array")
       THEN LET items == IF HasKey(avro_type, "items")
                         THEN convert_type(avro_type.d.items)
                         ELSE Raise("KeyError")
            IN IF IsExc(items) THEN items ELSE array_fragment(items)
       ELSE IF get(avro_type, "type") = Str("map")
       THEN LET values == IF HasKey(avro_type, "values")
                          THEN convert_type(avro_type.d.values)
                          ELSE Raise("KeyError")
            IN IF IsExc(values) THEN values ELSE map_fragment(values)
       ELSE IF get(avro_type, "type") = Str("enum")
       THEN IF HasKey(avro_type, "symbols")
            THEN enum_fragment(avro_type.d.symbols)
            ELSE Raise("KeyError")
       ELSE convert_tagged(avro_type)
  ELSE IF isinstance(avro_type, "list")
  THEN IF Len(non_null(avro_type)) = 1
       THEN convert_type(non_null(avro_type)[1])
       ELSE [type |-> "string"]
  ELSE [type |-> "string"]

avro_to_json_schema(schema) == convert_record(schema)

\* The number of nodes convert_type and convert_record are called on while
\* avro_to_json_schema(schema) runs: one for the node of each call (the call
\* of convert_record from convert_type is on the same node), the calls on
\* the inner nodes added, up to the call that raises.
RECURSIVE visits_type(_)
RECURSIVE visits_record(_)
RECURSIVE visits_fields(_, _)

visits_fields(fields, i) ==
  IF i > Len(fields) THEN 0
  ELSE IF IsExc(Subscript(fields[i], "name")) \/ IsExc(Subscript(fields[i], "type"))
  THEN 0
  ELSE visits_type(fields[i].d.type)
         + (IF IsExc(convert_type(fields[i].d.type)) THEN 0
            ELSE visits_fields(fields, i + 1))

visits_record(record) ==
  IF ~isinstance(record, "dict") THEN 1
  ELSE 1 + visits_fields(IF HasKey(record, "fields") THEN record.d.fields.v ELSE <<>>, 1)

\* the alternative of a union converted once for a test and once more for
\* the result
visits_type_twice(avro_type) ==
  IF isinstance(avro_type, "dict")
  THEN IF get(avro_type, "type") = Str("record")
       THEN visits_record(avro_type)
       ELSE IF get(avro_type, "type") = Str("array") /\ HasKey(avro_type, "items")
       THEN 1 + visits_type(avro_type.d.items)
       ELSE IF get(avro_type, "type") = Str("map") /\ HasKey(avro_type, "values")
       THEN 1 + visits_type(avro_type.d.values)
       ELSE 1
  ELSE IF isinstance(avro_type, "list") /\ Len(non_null(avro_type)) = 1
  THEN 1 + 2 * visits_type(non_null(avro_type)[1])
  ELSE 1

visits_type(avro_type) ==
  IF isinstance(avro_type, "dict")
  THEN IF get(avro_type, "type") = Str("record")
       THEN visits_record(avro_type)
       ELSE IF get(avro_type, "type") = Str("array") /\ HasKey(avro_type, "items")
       THEN 1 + visits_type(avro_type.d.items)
       ELSE IF get(avro_type, "type") = Str("map") /\ HasKey(avro_type, "values")
       THEN 1 + visits_type(avro_type.d.values)
       ELSE 1
  ELSE IF isinstance(avro_type, "list") /\ Len(non_null(avro_type)) = 1
  THEN 1 + visits_type(non_null(avro_type)[1])
  ELSE 1

(* ------------------------------ inputs --------------------------------- *)

PrimitiveKinds == {"string", "int", "long", "float", "double", "boolean", "bytes", "null"}

\* a kind name outside the table (a named type)
UnknownKinds == {"fixed"}

RecognizedTags == {"timestamp-millis", "date", "decimal"}

\* tags the code has no test for; the empty string is a tag that is falsy
UnknownTags == {"uuid", ""}

Absent == <<>>

TypeKeys == {Absent} \cup {"type" :> Str(k) : k \in PrimitiveKinds \cup UnknownKinds}

TagKeys == {Absent} \cup {"logicalType" :> Str(g) : g \in RecognizedTags \cup UnknownTags}

\* {"type": k, "logicalType": g}, each key present or not
TaggedNodes == {Dict(t @@ g) : t \in TypeKeys, g \in TagKeys}

StrNodes == {Str(k) : k \in PrimitiveKinds \cup UnknownKinds}

Symbols == List(<<Str("PENDING"), Str("ACTIVE")>>)

Array(x) == Dict(("type" :> Str("array")) @@ ("items" :> x))

Map(x) == Dict(("type" :> Str("map")) @@ ("values" :> x))

Enum(x) == Dict(("type" :> Str("enum")) @@ ("symbols" :> x))

Record(fields) == Dict(("type" :> Str("record")) @@ ("fields" :> List(fields)))

Field(name, type) == Dict(("name" :> Str(name)) @@ ("type" :> type))

\* nodes with a key missing, and a node that is no str, dict or list
MalformedNodes ==
  {Dict("type" :> Str("array")), Dict("type" :> Str("map")),
   Dict("type" :> Str("enum")), Num(42)}

Leaves ==
  StrNodes \cup TaggedNodes \cup MalformedNodes
    \cup {Enum(Symbols), Dict("type" :> Str("record"))}

UnionMembers ==
  {Str("null"), Str("string"),
   Dict(("type" :> Str("long")) @@ ("logicalType" :> Str("timestamp-millis"))),
   Dict("type" :> Str("array"))}

Unions == {List(q) : q \in UNION {[1..n -> UnionMembers] : n \in 0..MaxUnionLen}}

BaseTypes == Leaves \cup Unions

Wrappers == {"array", "map", "optional", "record"}

\* the nestings of at most MaxDepth wrappers, outermost first
Wrappings == UNION {[1..n -> Wrappers] : n \in 0..MaxDepth}

\* the type t inside the wrappers ws: the items of an array, the values of
\* a map, the alternative of an optional union, the field of a record
RECURSIVE Nest(_, _)
Nest(ws, t) ==
  IF ws = <<>> THEN t
  ELSE LET x == Nest(Tail(ws), t)
       IN CASE Head(ws) = "array"    -> Array(x)
            [] Head(ws) = "map"      -> Map(x)
            [] Head(ws) = "optional" -> List(<<x, Str("null")>>)
            [] Head(ws) = "record"   -> Record(<<Field("inner", x)>>)

DefaultKeys == {Absent, "default" :> None, "default" :> Num(0)}

DocKeys == {Absent, "doc" :> Str(""), "doc" :> Str("text")}

FieldNames == {"a", "b", "c"}

SmallTypes ==
  {Str("string"), List(<<Str("null"), Str("string")>>),
   List(<<Str("string"), Str("int")>>),
   List(<<Str("null"), Str("string"), Str("int")>>)}

\* fields that lack `name` or `type`, and a field that is no dict
MalformedFields ==
  {Dict("type" :> Str("string")), Dict("name" :> Str("a")), Str("a")}

SmallFields ==
  {Dict(("name" :> Str(n)) @@ ("type" :> t) @@ df) :
     n \in FieldNames, t \in SmallTypes, df \in {Absent, "default" :> None}}
    \cup MalformedFields

\* a record with a `name`, one of whose fields names the record itself
LinkedList ==
  Dict(("type" :> Str("record")) @@ ("name" :> Str("Node"))
       @@ ("fields" :> List(<<Field("value", Str("int")),
                              Field("next", List(<<Str("null"), Str("Node")>>)),
                              Field("children", Array(Str("Node")))>>)))

FieldSeqs == UNION {[1..n -> SmallFields] : n \in 0..MaxFields}

(* --------------------------- state machine ------------------------------ *)

Init ==
  /\ pc = "idle"
  /\ avro_schema = None
  /\ result = None
  /\ earlier = None
  /\ main_pc = "idle"
  /\ args = None
  /\ local_file = None
  /\ order_created = None
  /\ response = None
  /\ fetched_schema = None
  /\ spec = None
  /\ stderr = <<>>
  /\ requests = <<>>
  /\ messages = <<>>
  /\ task = <<>>
  /\ published = <<>>

\* a caller loads a schema document and passes it to avro_to_json_schema:
\* a record with one field of a nested type, with one field that has a
\* default and a doc, with several fields, with a doc of its own, with no
\* fields at all, a document that is no record, or a record that names
\* itself in its fields
Call ==
  /\ pc = "idle"
  /\ \/ \E t \in BaseTypes, ws \in Wrappings :
          avro_schema' = Record(<<Field("a", Nest(ws, t))>>)
     \/ \E t \in BaseTypes, df \in DefaultKeys, dc \in DocKeys :
          avro_schema' = Record(<<Dict(("name" :> Str("a")) @@ ("type" :> t) @@ df @@ dc)>>)
     \/ \E fields \in FieldSeqs :
          avro_schema' = Record(fields)
     \/ \E f \in SmallFields :
          avro_schema' = Dict(("type" :> Str("record")) @@ ("doc" :> Str("An order"))
                              @@ ("fields" :> List(<<f>>)))
     \/ avro_schema' \in {Dict("type" :> Str("record")),
                          List(<<Str("null"), Str("string")>>),
                          LinkedList}
  /\ pc' = "called"
  /\ UNCHANGED <<result, earlier>>
  /\ UNCHANGED <<docVars, handlerVars>>

\* avro_to_json_schema runs to its return or to the exception it raises
Convert ==
  /\ pc = "called"
  /\ result' = avro_to_json_schema(avro_schema)
  /\ pc' = IF IsExc(result') THEN "raised" ELSE "returned"
  /\ UNCHANGED <<avro_schema, earlier>>
  /\ UNCHANGED <<docVars, handlerVars>>

\* the caller is done with the result
Finish ==
  /\ pc \in {"returned", "raised"}
  /\ pc' = "idle"
  /\ avro_schema' = None
  /\ result' = None
  /\ UNCHANGED earlier
  /\ UNCHANGED <<docVars, handlerVars>>

Next ==
  \/ Call
  \/ Convert
  \/ Finish

Spec == Init /\ [][Next]_vars

\* the schema documents one process converts again and again
RepeatSchemas ==
  {Record(<<f>>) : f \in SmallFields}
    \cup {LinkedList, Record(<<Field("a", Enum(Symbols))>>),
          List(<<Str("null"), Str("string")>>)}

\* one more call in the same process
CallAgain ==
  /\ pc = "idle"
  /\ \E schema \in RepeatSchemas : avro_schema' = schema
  /\ pc' = "called"
  /\ UNCHANGED <<result, earlier>>
  /\ UNCHANGED <<docVars, handlerVars>>

\* the call that has ended is the one the history keeps
FinishKept ==
  /\ pc \in {"returned", "raised"}
  /\ earlier = None
  /\ earlier' = [schema |-> avro_schema, result |-> result, others |-> 0]
  /\ pc' = "idle"
  /\ avro_schema' = None
  /\ result' = None
  /\ UNCHANGED <<docVars, handlerVars>>

\* the call that has ended came after the one the history keeps
FinishLater ==
  /\ pc \in {"returned", "raised"}
  /\ earlier # None
  /\ earlier.others < MaxOthers
  /\ earlier' = [earlier EXCEPT !.others = @ + 1]
  /\ pc' = "idle"
  /\ avro_schema' = None
  /\ result' = None
  /\ UNCHANGED <<docVars, handlerVars>>

NextRepeat ==
  \/ CallAgain
  \/ Convert
  \/ FinishKept
  \/ FinishLater

\* several conversions, one after the other, in one process
SpecRepeat == Init /\ [][NextRepeat]_vars

(* ------------------------ the document assembler ------------------------ *)

Ref(target) == "$ref" :> target

AvroJson == "application/vnd.apache.avro+json;version=1.9.0"

DefaultRegistryUrl == "http://redpanda:8081"

\* the URL fetch_schema_from_registry opens
fetch_url(registry_url, subject) ==
  registry_url \o "/subjects/" \o subject \o "/versions/latest/schema"

\* json.loads of a response body: the value of a JSON text, an exception
\* for any other text (the empty text included)
json_loads(body) ==
  IF body.json THEN body.value ELSE Raise("JSONDecodeError")

\* what the call returns and prints, or the exception that leaves it:
\* only URLError and HTTPError are caught
fetch_schema_from_registry(reply) ==
  CASE reply.kind \in {"URLError", "HTTPError"}
         -> [returns |-> None, printed |-> <<"Warning: Could not fetch schema">>]
    [] reply.kind = "TimeoutError"
         -> Raise("TimeoutError")
    [] reply.kind = "body"
         -> LET loaded == json_loads(reply.body)
            IN IF IsExc(loaded) THEN loaded
               ELSE [returns |-> loaded, printed |-> <<>>]

\* the inlined payload holding the converted fragment
payload_inline_converted(schema) ==
  [schemaFormat |-> AvroJson, schema |-> avro_to_json_schema(schema)]

payload_inline(schema) ==
  [schemaFormat |-> AvroJson, schema |-> schema]

\* the reference built from the default URL, not the caller's
payload_reference_default(registry_url) ==
  [schemaFormat |-> AvroJson,
   schema |-> Ref(DefaultRegistryUrl \o "/subjects/orders.created-value/versions/latest/schema")]

payload_reference(registry_url) ==
  [schemaFormat |-> AvroJson,
   schema |-> Ref(registry_url \o "/subjects/orders.created-value/versions/latest/schema")]

\* order_created.get("doc", "Event emitted when a new order is placed")
summary_of(schema) ==
  IF HasKey(schema, "doc") THEN schema.d.doc
  ELSE Str("Event emitted when a new order is placed")

\* order_created.get('namespace', 'N/A'), formatted into a str
namespace_of(schema) ==
  IF HasKey(schema, "namespace") THEN schema.d.namespace.v
  ELSE "N/A"

producer_channels ==
  "orders.created" :>
    [address     |-> "orders.created",
     description |-> "Topic for newly created order events",
     messages    |-> ("OrderCreated" :> Ref("#/components/messages/OrderCreated"))]

producer_operations ==
  "publishOrderCreated" :>
    [action   |-> "send",
     channel  |-> Ref("#/channels/orders.created"),
     summary  |-> "Publish a new order event",
     messages |-> <<Ref("#/channels/orders.created/messages/OrderCreated")>>]

consumer_channels ==
  "order-events" :>
    [address     |-> "order-events",
     description |-> "SQS queue receiving order events bridged from Kafka",
     messages    |-> ("OrderCreated" :> Ref("#/components/messages/OrderCreated"))]

\* the consumer's operation with the producer's action
consumer_operations_send ==
  "receiveOrderCreated" :>
    [action   |-> "send",
     channel  |-> Ref("#/channels/order-events"),
     summary  |-> "Receive order created events from SQS",
     messages |-> <<Ref("#/channels/order-events/messages/OrderCreated")>>]

consumer_operations ==
  "receiveOrderCreated" :>
    [action   |-> "receive",
     channel  |-> Ref("#/channels/order-events"),
     summary  |-> "Receive order created events from SQS",
     messages |-> <<Ref("#/channels/order-events/messages/OrderCreated")>>]

\* the dict generate_producer_spec returns
producer_document(registry_url, schema, payload) ==
  [asyncapi |-> "3.0.0",
   info |-> [title       |-> "Order Producer Service",
             version     |-> "1.0.0",
             description |-> "## Order Producer Service ... Schema Registry: " \o registry_url],
   defaultContentType |-> "application/vnd.apache.avro+json",
   servers |-> ("development" :> [host |-> "localhost:19092", protocol |-> "kafka",
                                  description |-> "Local Redpanda broker"]),
   channels   |-> producer_channels,
   operations |-> producer_operations,
   components |->
     [messages |-> ("OrderCreated" :>
        [name        |-> "OrderCreated",
         title       |-> "Order Created Event",
         summary     |-> summary_of(schema),
         contentType |-> "application/vnd.apache.avro+json",
         payload     |-> payload])]]

\* the dict generate_consumer_spec returns
consumer_document(schema, order_created_json) ==
  [asyncapi |-> "3.0.0",
   info |-> [title       |-> "Order Fulfillment Service",
             version     |-> "1.0.0",
             description |-> "## Order Fulfillment Service ... Kafka -> Redpanda Connect -> SQS -> Consumer"],
   defaultContentType |-> "application/json",
   servers |-> ("localstack" :> [host |-> "localstack:4566", protocol |-> "sqs",
                                 description |-> "LocalStack SQS endpoint"]),
   channels   |-> consumer_channels,
   operations |-> consumer_operations,
   components |->
     [messages |-> ("OrderCreated" :>
        [name        |-> "OrderCreated",
         title       |-> "Order Created Event",
         summary     |-> summary_of(schema),
         description |-> "Generated from Avro schema: schemas/order_created.avsc Namespace: "
                           \o namespace_of(schema),
         contentType |-> "application/json",
         payload     |-> Ref("#/components/schemas/OrderCreated")]),
      schemas  |-> ("OrderCreated" :> order_created_json)]]

\* ---- one run of main ----

RegistryUrls == {DefaultRegistryUrl, "http://localhost:18081"}

\* schemas/order_created.avsc: with and without doc and namespace, and
\* one with a field that has no type
LocalSchemas ==
  {Dict(("type" :> Str("record")) @@ ("name" :> Str("OrderCreated"))
        @@ ("namespace" :> Str("com.example.orders")) @@ ("doc" :> Str("An order was placed"))
        @@ ("fields" :> List(<<Field("order_id", Str("string")),
                               Field("note", List(<<Str("null"), Str("string")>>))>>))),
   Record(<<Field("order_id", Str("string"))>>),
   Record(<<Dict("name" :> Str("order_id"))>>)}

\* the schema the registry holds for orders.created-value
RegistrySchemas ==
  {Dict(("type" :> Str("record")) @@ ("name" :> Str("OrderCreated"))
        @@ ("doc" :> Str("Registered order event"))
        @@ ("fields" :> List(<<Field("order_id", Str("string")),
                               Field("total", Str("double"))>>)))}

\* response bodies: JSON texts with their value, and texts that are no JSON
Bodies ==
  {[json |-> TRUE, value |-> v] : v \in RegistrySchemas \cup {Dict(<<>>), None}}
    \cup {[json |-> FALSE, text |-> t] : t \in {"", "<html>"}}

\* what urlopen and read() do: URLError (unreachable host, timeout while
\* connecting), HTTPError (an error status), TimeoutError (timeout while
\* waiting for or reading the response), or a body
Responses ==
  {[kind |-> "URLError", reason |-> r] : r \in {"unreachable", "timed out"}}
    \cup {[kind |-> "HTTPError", code |-> c] : c \in {404, 500}}
    \cup {[kind |-> "TimeoutError"]}
    \cup {[kind |-> "body", body |-> b] : b \in Bodies}

\* main: the arguments are parsed and the function for the service is entered
Main ==
  /\ main_pc = "idle"
  /\ \E service \in {"producer", "consumer"}, registry_url \in RegistryUrls, inline \in BOOLEAN :
       args' = [service |-> service, registry_url |-> registry_url, inline |-> inline]
  /\ \E schema \in LocalSchemas : local_file' = schema
  /\ main_pc' = "entered"
  /\ UNCHANGED <<order_created, response, fetched_schema, spec, stderr, requests>>
  /\ UNCHANGED <<convVars, handlerVars>>

\* load_avro_schema(schemas_dir / "order_created.avsc")
Load ==
  /\ main_pc = "entered"
  /\ order_created' = local_file
  /\ main_pc' = "loaded"
  /\ UNCHANGED <<args, local_file, response, fetched_schema, spec, stderr, requests>>
  /\ UNCHANGED <<convVars, handlerVars>>

\* generate_producer_spec, inline: the call of fetch_schema_from_registry
Fetch ==
  /\ main_pc = "loaded"
  /\ args.service = "producer"
  /\ args.inline
  /\ requests' = Append(requests, fetch_url(args.registry_url, "orders.created-value"))
  /\ \E r \in Responses :
       /\ response' = r
       /\ LET call == fetch_schema_from_registry(r)
          IN IF IsExc(call)
             THEN /\ spec' = call
                  /\ main_pc' = "raised"
                  /\ UNCHANGED <<fetched_schema, stderr>>
             ELSE /\ fetched_schema' = call.returns
                  /\ stderr' = stderr \o call.printed
                  /\ main_pc' = "fetched"
                  /\ UNCHANGED spec
  /\ UNCHANGED <<args, local_file, order_created>>
  /\ UNCHANGED <<convVars, handlerVars>>

\* generate_producer_spec, inline: the fetched schema or the local one goes
\* into the payload, and the document is returned
AssembleInline ==
  /\ main_pc = "fetched"
  /\ IF Truthy(fetched_schema)
     THEN /\ order_created' = fetched_schema
          /\ UNCHANGED stderr
     ELSE /\ stderr' = Append(stderr, "Warning: Could not fetch from registry, using local file")
          /\ UNCHANGED order_created
  /\ spec' = producer_document(args.registry_url, order_created', payload_inline(order_created'))
  /\ main_pc' = "assembled"
  /\ UNCHANGED <<args, local_file, response, fetched_schema, requests>>
  /\ UNCHANGED <<convVars, handlerVars>>

\* generate_producer_spec, inline false: the payload refers to the registry
AssembleReference ==
  /\ main_pc = "loaded"
  /\ args.service = "producer"
  /\ ~args.inline
  /\ spec' = producer_document(args.registry_url, order_created, payload_reference(args.registry_url))
  /\ main_pc' = "assembled"
  /\ UNCHANGED <<args, local_file, order_created, response, fetched_schema, stderr, requests>>
  /\ UNCHANGED <<convVars, handlerVars>>

\* generate_consumer_spec: the local schema is converted and the document
\* returned; an exception of the conversion leaves the function
AssembleConsumer ==
  /\ main_pc = "loaded"
  /\ args.service = "consumer"
  /\ LET order_created_json == avro_to_json_schema(order_created)
     IN IF IsExc(order_created_json)
        THEN /\ spec' = order_created_json
             /\ main_pc' = "raised"
        ELSE /\ spec' = consumer_document(order_created, order_created_json)
             /\ main_pc' = "assembled"
  /\ UNCHANGED <<args, local_file, order_created, response, fetched_schema, stderr, requests>>
  /\ UNCHANGED <<convVars, handlerVars>>

\* main: the document is printed, or the exception ends the process
Exit ==
  /\ main_pc \in {"assembled", "raised"}
  /\ main_pc' = "idle"
  /\ args' = None
  /\ local_file' = None
  /\ order_created' = None
  /\ response' = None
  /\ fetched_schema' = None
  /\ spec' = None
  /\ stderr' = <<>>
  /\ requests' = <<>>
  /\ UNCHANGED <<convVars, handlerVars>>

NextDoc ==
  \/ Main
  \/ Load
  \/ Fetch
  \/ AssembleInline
  \/ AssembleReference
  \/ AssembleConsumer
  \/ Exit

\* runs of the generator script
SpecDoc == Init /\ [][NextDoc]_vars

(* ------------------------ handle_order_created -------------------------- *)

OrderIds == {"ord_1", "ord_2"}

\* message bodies: an order as JSON, or a text json.loads or OrderCreated
\* rejects
MessageBodies ==
  {[valid |-> TRUE, order_id |-> o, customer_id |-> "cust_1"] : o \in OrderIds}
    \cup {[valid |-> FALSE]}

\* the OrderShipped event correlated by the customer
OrderShipped_by_customer(order, correlation_id) ==
  [event_type |-> "OrderShipped", order_id |-> order.order_id,
   customer_id |-> order.customer_id, correlation_id |-> order.customer_id]

OrderAccepted(order, correlation_id) ==
  [event_type |-> "OrderAccepted", order_id |-> order.order_id,
   customer_id |-> order.customer_id, correlation_id |-> correlation_id]

OrderShipped(order, correlation_id) ==
  [event_type |-> "OrderShipped", order_id |-> order.order_id,
   customer_id |-> order.customer_id, correlation_id |-> correlation_id]

OrderFulfilled(order, correlation_id) ==
  [event_type |-> "OrderFulfilled", order_id |-> order.order_id,
   customer_id |-> order.customer_id, correlation_id |-> correlation_id]

\* one call of publisher.publish(event.model_dump_json(), key=..., headers=...)
\* made by the handler of message i
publish(i, topic, event, event_type, correlation_id) ==
  [message |-> i, topic |-> topic, event |-> event, key |-> event.customer_id,
   headers |-> [event_type |-> event_type, correlation_id |-> correlation_id,
                source |-> "order-fulfillment"]]

\* except Exception: the error is logged and raised again
reraise(i, step) ==
  [task EXCEPT ![i] = [@ EXCEPT !.pc = "raised", !.failed_at = step]]

\* the broker delivers a message and the handler is entered
Deliver ==
  /\ Len(messages) < MaxMessages
  /\ \E body \in MessageBodies : messages' = Append(messages, body)
  /\ task' = Append(task, [pc |-> "received", order |-> None,
                            correlation_id |-> None, failed_at |-> ""])
  /\ UNCHANGED published
  /\ UNCHANGED <<convVars, docVars>>

\* json.loads(body), OrderCreated(**order_data), correlation_id = order.order_id
Validate ==
  \E i \in DOMAIN task :
    /\ task[i].pc = "received"
    /\ IF messages[i].valid
       THEN task' = [task EXCEPT ![i] = [@ EXCEPT !.pc = "validated",
                                                  !.order = messages[i],
                                                  !.correlation_id = messages[i].order_id]]
       ELSE task' = reraise(i, "validate")
    /\ UNCHANGED <<messages, published>>
    /\ UNCHANGED <<convVars, docVars>>

\* step 1: the OrderAccepted event is built and published, or one of the
\* two raises
PublishAccepted ==
  \E i \in DOMAIN task :
    /\ task[i].pc = "validated"
    /\ \/ /\ published' = Append(published,
               publish(i, "orders.accepted",
                       OrderAccepted(task[i].order, task[i].correlation_id),
                       "OrderAccepted", task[i].correlation_id))
          /\ task' = [task EXCEPT ![i].pc = "accepted"]
       \/ /\ task' = reraise(i, "accept")
          /\ UNCHANGED published
    /\ UNCHANGED messages
    /\ UNCHANGED <<convVars, docVars>>

\* await asyncio.sleep(...): other handlers may run; a cancellation ends
\* this one
Sleep ==
  \E i \in DOMAIN task :
    /\ task[i].pc = "accepted"
    /\ \/ task' = [task EXCEPT ![i].pc = "slept"]
       \/ task' = [task EXCEPT ![i] = [@ EXCEPT !.pc = "cancelled", !.failed_at = "sleep"]]
    /\ UNCHANGED <<messages, published>>
    /\ UNCHANGED <<convVars, docVars>>

\* step 2: the OrderShipped event is built and published, or one of the
\* two raises
PublishShipped ==
  \E i \in DOMAIN task :
    /\ task[i].pc = "slept"
    /\ \/ /\ published' = Append(published,
               publish(i, "orders.shipped",
                       OrderShipped(task[i].order, task[i].correlation_id),
                       "OrderShipped", task[i].correlation_id))
          /\ task' = [task EXCEPT ![i].pc = "shipped"]
       \/ /\ task' = reraise(i, "ship")
          /\ UNCHANGED published
    /\ UNCHANGED messages
    /\ UNCHANGED <<convVars, docVars>>

\* step 3: the OrderFulfilled event is built and published and the handler
\* returns, or one of the two raises
PublishFulfilled ==
  \E i \in DOMAIN task :
    /\ task[i].pc = "shipped"
    /\ \/ /\ published' = Append(published,
               publish(i, "orders.fulfilled",
                       OrderFulfilled(task[i].order, task[i].correlation_id),
                       "OrderFulfilled", task[i].correlation_id))
          /\ task' = [task EXCEPT ![i].pc = "returned"]
       \/ /\ task' = reraise(i, "fulfil")
          /\ UNCHANGED published
    /\ UNCHANGED messages
    /\ UNCHANGED <<convVars, docVars>>

NextHandler ==
  \/ Deliver
  \/ Validate
  \/ PublishAccepted
  \/ Sleep
  \/ PublishShipped
  \/ PublishFulfilled

\* the consumer service handling the messages it is delivered
SpecHandler == Init /\ [][NextHandler]_vars

TypeOK ==
  /\ pc \in {"idle", "called", "returned", "raised"}
  /\ pc = "raised" => IsExc(result)

(* ------------------- reading an input and its output -------------------- *)

Returned == pc = "returned"

IsField(f) == isinstance(f, "dict") /\ HasKey(f, "name") /\ HasKey(f, "type")

FieldsOf(record) == IF HasKey(record, "fields") THEN record.d.fields.v ELSE <<>>

IsRecordNode(node) == isinstance(node, "dict") /\ get(node, "type") = Str("record")

\* a record as the data model has it: fields with a name and a type, the
\* names unique within the record
WellFormed(record) ==
  LET fs == FieldsOf(record)
  IN /\ \A i \in 1..Len(fs) : IsField(fs[i])
     /\ \A i, j \in 1..Len(fs) : fs[i].d.name = fs[j].d.name => i = j

HasProp(frag, name) ==
  /\ "properties" \in DOMAIN frag
  /\ \E i \in 1..Len(frag.properties) : frag.properties[i].key = name

PropOf(frag, name) ==
  frag.properties[CHOOSE i \in 1..Len(frag.properties) : frag.properties[i].key = name].value

\* the entries of `required`; the code sets the key only for a list that
\* is not empty
RequiredOf(frag) == IF "required" \in DOMAIN frag THEN frag.required ELSE <<>>

InRequired(frag, name) == \E i \in 1..Len(RequiredOf(frag)) : RequiredOf(frag)[i] = name

NullMarker == Str("null")

NonNullAt(node) == {i \in 1..Len(node.v) : node.v[i] # NullMarker}

HasNullMarker(node) == \E i \in 1..Len(node.v) : node.v[i] = NullMarker

\* a union with exactly one alternative that is not the null-marker
IsOptionalUnion(node) ==
  isinstance(node, "list") /\ Len(node.v) >= 2 /\ Cardinality(NonNullAt(node)) = 1

TheAlternative(node) == node.v[CHOOSE i \in NonNullAt(node) : TRUE]

\* a union with two or more alternatives that are not the null-marker
IsGeneralUnion(node) == isinstance(node, "list") /\ Cardinality(NonNullAt(node)) >= 2

\* the fragment of a node together with what its field, if it is the type
\* of a field, attaches to it
Attached(frag, field) ==
  IF field = None THEN frag ELSE with_default(with_doc(frag, field), field)

\* every node of the input with the fragment the output has in its place:
\* items of arrays, values of maps, the one alternative of an optional
\* union, the field types of well-formed records
RECURSIVE NodePairs(_, _, _)
NodePairs(node, frag, field) ==
  {[node |-> node, frag |-> frag, field |-> field]} \cup
  (IF isinstance(node, "dict") /\ get(node, "type") = Str("array")
      /\ HasKey(node, "items") /\ "items" \in DOMAIN frag
   THEN NodePairs(node.d.items, frag.items, None)
   ELSE IF isinstance(node, "dict") /\ get(node, "type") = Str("map")
      /\ HasKey(node, "values") /\ "additionalProperties" \in DOMAIN frag
   THEN NodePairs(node.d.values, frag.additionalProperties, None)
   ELSE IF IsRecordNode(node) /\ WellFormed(node)
   THEN UNION {NodePairs(FieldsOf(node)[i].d.type,
                         PropOf(frag, FieldsOf(node)[i].d.name),
                         FieldsOf(node)[i]) :
                 i \in {j \in 1..Len(FieldsOf(node)) :
                          HasProp(frag, FieldsOf(node)[j].d.name)}}
   ELSE IF IsOptionalUnion(node)
   THEN NodePairs(TheAlternative(node), frag, field)
   ELSE {})

Pairs == IF Returned THEN NodePairs(avro_schema, result, None) ELSE {}

\* the well-formed records of the input, each with its output fragment
RecordPairs == {p \in Pairs : IsRecordNode(p.node) /\ WellFormed(p.node)}

\* the fields of the input: the field, the fragment of its record, and the
\* property the output has under its name
FieldPairs ==
  UNION {{[field |-> FieldsOf(p.node)[i], out |-> p.frag] : i \in 1..Len(FieldsOf(p.node))} :
           p \in RecordPairs}

(* ------------------------------ claims ---------------------------------- *)

\* the derived optionality flag of the data model: the type is a union
\* with the null-marker among its members, or a `default` key is present
OptionalityFlag(field) ==
  \/ isinstance(field.d.type, "list") /\ HasNullMarker(field.d.type)
  \/ HasKey(field, "default")

\* C1: for every record of the input and every field of it, the field's
\* name is in the record's `required` list if and only if the field's
\* optionality flag is false (a `default` key of value null counts as a
\* default).
C1_RequiredIffNotOptional ==
  \A p \in FieldPairs :
    InRequired(p.out, p.field.d.name) <=> ~OptionalityFlag(p.field)

\* a field with `default: null` and a type that is no union was converted
\* and left out of `required`, in a record that lists another field
C1_Witness ==
  /\ Returned
  /\ \E p \in FieldPairs :
       /\ HasKey(p.field, "default") /\ p.field.d.default = None
       /\ ~isinstance(p.field.d.type, "list")
       /\ ~InRequired(p.out, p.field.d.name)
  /\ \E p \in FieldPairs : InRequired(p.out, p.field.d.name)

\* C2 as stated: requiredness follows the shape of the type only; a field
\* whose type is an optional union is left out of `required` with or
\* without a default, and a field with a default and a type that is no
\* union is listed in `required`.
C2_TypeShapeOnly ==
  \A p \in FieldPairs :
    /\ IsOptionalUnion(p.field.d.type) => ~InRequired(p.out, p.field.d.name)
    /\ (HasKey(p.field, "default") /\ ~isinstance(p.field.d.type, "list"))
         => InRequired(p.out, p.field.d.name)

\* C2 amended: a field whose type is an optional union is left out of
\* `required` with or without a default, and a field with a default and a
\* type that is no union is left out of `required` too; a field whose type
\* is no union is listed exactly when it has no default.
C2_DefaultAlsoDecides ==
  \A p \in FieldPairs :
    /\ IsOptionalUnion(p.field.d.type) => ~InRequired(p.out, p.field.d.name)
    /\ ~isinstance(p.field.d.type, "list")
         => (InRequired(p.out, p.field.d.name) <=> ~HasKey(p.field, "default"))

\* one record holds a defaulted field of a plain type and was converted:
\* the field is not in `required`, an undefaulted sibling of the same type is
C2_Witness ==
  /\ Returned
  /\ \E p, q \in FieldPairs :
       /\ p.out = q.out
       /\ p.field.d.type = Str("string") /\ q.field.d.type = Str("string")
       /\ HasKey(p.field, "default") /\ ~HasKey(q.field, "default")
       /\ ~InRequired(p.out, p.field.d.name)
       /\ InRequired(q.out, q.field.d.name)

\* C3: a field whose type is a union of two or more members with exactly
\* one alternative A that is not the null-marker, at any position, has the
\* conversion of A (with the field's doc and default attached) as its
\* property, and its name is not in `required`.
C3_OptionalUnionIsInner ==
  \A p \in FieldPairs :
    IsOptionalUnion(p.field.d.type) =>
      /\ HasProp(p.out, p.field.d.name)
      /\ PropOf(p.out, p.field.d.name)
           = Attached(convert_type(TheAlternative(p.field.d.type)), p.field)
      /\ ~InRequired(p.out, p.field.d.name)

\* a union whose null-marker comes last, around a logical type, was
\* converted to the logical type's fragment
C3_Witness ==
  /\ Returned
  /\ \E p \in FieldPairs :
       /\ IsOptionalUnion(p.field.d.type)
       /\ p.field.d.type.v[Len(p.field.d.type.v)] = NullMarker
       /\ HasProp(p.out, p.field.d.name)
       /\ "format" \in DOMAIN PropOf(p.out, p.field.d.name)
       /\ PropOf(p.out, p.field.d.name).format = "date-time"

\* C4 as stated: a field whose type is a general union (two or more
\* alternatives that are not the null-marker, with or without a null-marker)
\* has the property {type: string} and is not optional: without a default
\* its name is in `required`.
C4_GeneralUnionNotOptional ==
  \A p \in FieldPairs :
    IsGeneralUnion(p.field.d.type) =>
      /\ HasProp(p.out, p.field.d.name)
      /\ PropOf(p.out, p.field.d.name) = Attached([type |-> "string"], p.field)
      /\ ~HasKey(p.field, "default") => InRequired(p.out, p.field.d.name)

\* C4 amended: a field whose type is a general union has the property
\* {type: string}; it is not optional only when no member is the
\* null-marker: its name is in `required` exactly when the union has no
\* null-marker and the field has no default.
C4_GeneralUnionOptionalIfNull ==
  \A p \in FieldPairs :
    IsGeneralUnion(p.field.d.type) =>
      /\ HasProp(p.out, p.field.d.name)
      /\ PropOf(p.out, p.field.d.name) = Attached([type |-> "string"], p.field)
      /\ InRequired(p.out, p.field.d.name)
           <=> (~HasNullMarker(p.field.d.type) /\ ~HasKey(p.field, "default"))

\* a general union with a null-marker and no default was converted and is
\* not in `required`, next to one without null-marker that is
C4_Witness ==
  /\ Returned
  /\ \E p, q \in FieldPairs :
       /\ p.out = q.out
       /\ IsGeneralUnion(p.field.d.type) /\ HasNullMarker(p.field.d.type)
       /\ ~HasKey(p.field, "default")
       /\ ~InRequired(p.out, p.field.d.name)
       /\ IsGeneralUnion(q.field.d.type) /\ ~HasNullMarker(q.field.d.type)
       /\ InRequired(q.out, q.field.d.name)

\* the table of primitive kinds of the specification
PrimitiveTable ==
  [string |-> "string", int |-> "integer", long |-> "integer",
   float |-> "number", double |-> "number", boolean |-> "boolean",
   bytes |-> "string", null |-> "null"]

\* the fragments of the recognized logical types of the specification
LogicalTable ==
  [g \in RecognizedTags |->
     CASE g = "timestamp-millis" -> [type |-> "string", format |-> "date-time"]
       [] g = "date" -> [type |-> "string", format |-> "date"]
       [] g = "decimal" -> [type |-> "string",
                            description |-> Str("Decimal value as string")]]

\* a primitive node of kind k with a logical-type tag
IsTaggedPrimitive(node) ==
  /\ isinstance(node, "dict")
  /\ HasKey(node, "type") /\ isinstance(node.d.type, "str")
  /\ node.d.type.v \in PrimitiveKinds
  /\ HasKey(node, "logicalType") /\ isinstance(node.d.logicalType, "str")

\* C5: a primitive node of kind k with a logical-type tag that is none of
\* the recognized tags converts to the plain primitive mapping of k.
C5_UnknownTagFallsThrough ==
  \A p \in Pairs :
    (IsTaggedPrimitive(p.node) /\ p.node.d.logicalType.v \notin RecognizedTags)
      => p.frag = Attached([type |-> PrimitiveTable[p.node.d.type.v]], p.field)

\* C6: a primitive node of any kind k with a recognized logical-type tag
\* converts to the fragment of the logical type, whatever k is.
C6_LogicalTypeWins ==
  \A p \in Pairs :
    (IsTaggedPrimitive(p.node) /\ p.node.d.logicalType.v \in RecognizedTags)
      => p.frag = Attached(LogicalTable[p.node.d.logicalType.v], p.field)

\* the items of an array are bytes tagged decimal and were converted to the
\* decimal fragment, not to the mapping of bytes
C6_Witness ==
  /\ Returned
  /\ \E p \in Pairs :
       /\ p.field = None
       /\ IsTaggedPrimitive(p.node)
       /\ p.node.d.type.v = "bytes" /\ p.node.d.logicalType.v = "decimal"
       /\ p.frag = [type |-> "string", description |-> Str("Decimal value as string")]

\* a record all of whose fields are well formed and have a str as type
OnlyNamedTypes(record) ==
  /\ IsRecordNode(record) /\ WellFormed(record)
  /\ \A i \in 1..Len(FieldsOf(record)) : isinstance(FieldsOf(record)[i].d.type, "str")

\* C7: a kind name given as a type converts to {type: t} with t the entry
\* of the table, a name outside the table to {type: string}, and a record
\* whose field types are all names is converted without an exception.
C7_PrimitiveTable ==
  /\ \A p \in Pairs :
       isinstance(p.node, "str") =>
         p.frag = Attached([type |-> IF p.node.v \in DOMAIN PrimitiveTable
                                     THEN PrimitiveTable[p.node.v]
                                     ELSE "string"], p.field)
  /\ (pc \in {"returned", "raised"} /\ OnlyNamedTypes(avro_schema)) => Returned

\* the values of a map are long and were converted to {type: integer}
C7_Witness ==
  /\ Returned
  /\ \E p \in Pairs :
       /\ p.node = Str("long") /\ p.field = None
       /\ p.frag = [type |-> "integer"]

NamesOf(fs) == [i \in 1..Len(fs) |-> fs[i].d.name]

\* the names of the required fields of a record, in declaration order
RequiredNames(record) ==
  NamesOf(SelectSeq(FieldsOf(record), LAMBDA f : ~OptionalityFlag(f)))

\* C8: for every record with unique field names, the keys of `properties`
\* are the field names in declaration order, and `required` has exactly as
\* many entries as the record has required fields: their names, in
\* declaration order, none repeated (a record with no required field has no
\* `required` key, which lists nothing).
C8_DeclarationOrder ==
  \A p \in RecordPairs :
    /\ "properties" \in DOMAIN p.frag
    /\ Keys(p.frag.properties) = NamesOf(FieldsOf(p.node))
    /\ RequiredOf(p.frag) = RequiredNames(p.node)
    /\ Len(RequiredOf(p.frag))
         = Cardinality({i \in 1..Len(FieldsOf(p.node)) :
                          ~OptionalityFlag(FieldsOf(p.node)[i])})
    /\ \A i, j \in 1..Len(RequiredOf(p.frag)) :
         RequiredOf(p.frag)[i] = RequiredOf(p.frag)[j] => i = j

\* a record declares b before a, both required, and was converted
C8_Witness ==
  /\ Returned
  /\ WellFormed(avro_schema)
  /\ NamesOf(FieldsOf(avro_schema)) = <<Str("b"), Str("a")>>
  /\ RequiredOf(result) = <<Str("b"), Str("a")>>

\* C9: at every depth an array node converts to {type: array, items:
\* convert(items)}, a map node to {type: object, additionalProperties:
\* convert(values)}, an enum node to {type: string, enum: symbols} with the
\* symbols as declared, and a nested record to the object fragment of the
\* record rule, with a property for each of its fields.
C9_StructureKept ==
  \A p \in Pairs :
    /\ (isinstance(p.node, "dict") /\ get(p.node, "type") = Str("array")
          /\ HasKey(p.node, "items"))
         => p.frag = Attached([type |-> "array",
                               items |-> convert_type(p.node.d.items)], p.field)
    /\ (isinstance(p.node, "dict") /\ get(p.node, "type") = Str("map")
          /\ HasKey(p.node, "values"))
         => p.frag = Attached([type |-> "object",
                               additionalProperties |-> convert_type(p.node.d.values)],
                              p.field)
    /\ (isinstance(p.node, "dict") /\ get(p.node, "type") = Str("enum")
          /\ HasKey(p.node, "symbols"))
         => p.frag = Attached([type |-> "string", enum |-> p.node.d.symbols], p.field)
    /\ (IsRecordNode(p.node) /\ WellFormed(p.node))
         => /\ p.frag.type = "object"
            /\ "properties" \in DOMAIN p.frag
            /\ Len(p.frag.properties) = Len(FieldsOf(p.node))
            /\ \A i \in 1..Len(FieldsOf(p.node)) :
                 /\ HasProp(p.frag, FieldsOf(p.node)[i].d.name)
                 /\ PropOf(p.frag, FieldsOf(p.node)[i].d.name)
                      = Attached(convert_type(FieldsOf(p.node)[i].d.type),
                                 FieldsOf(p.node)[i])

\* below the top record, a nested record holds an array of enums: all the
\* three levels are in the output
C9_Witness ==
  /\ Returned
  /\ \E p, q, r \in Pairs :
       /\ IsRecordNode(p.node) /\ p.field # None
       /\ q.field # None /\ q.field \in {FieldsOf(p.node)[i] : i \in 1..Len(FieldsOf(p.node))}
       /\ isinstance(q.node, "dict")
       /\ get(q.node, "type") = Str("array") /\ q.frag.type = "array"
       /\ HasKey(q.node, "items") /\ r.node = q.node.d.items
       /\ r.frag = q.frag.items
       /\ r.frag = [type |-> "string", enum |-> Symbols]

\* C10: avro_to_json_schema never ends in an exception: a node of no
\* recognized shape is converted to {type: string} and the conversion of
\* the rest of the tree completes.
C10_NeverRaises == pc # "raised"

\* a primitive node given as a dict with the kind as its `type` and no
\* logical-type tag
IsPlainPrimitiveDict(node) ==
  /\ isinstance(node, "dict")
  /\ HasKey(node, "type") /\ isinstance(node.d.type, "str")
  /\ node.d.type.v \in PrimitiveKinds
  /\ ~HasKey(node, "logicalType")

\* C18: for every primitive kind k of the table, the type {type: k} with no
\* logical-type tag converts to the same fragment as the bare name k.
C18_DictSameAsName ==
  \A p \in Pairs :
    IsPlainPrimitiveDict(p.node)
      => p.frag = Attached(convert_type(p.node.d.type), p.field)

\* the number of schema nodes of a tree: the node itself, the field types
\* of a record, the items of an array, the values of a map, the members of
\* a union
RECURSIVE Size(_)
RECURSIVE SizeAll(_, _)
RECURSIVE SizeFields(_, _)
Size(node) ==
  IF isinstance(node, "list") THEN 1 + SizeAll(node.v, 1)
  ELSE IF isinstance(node, "dict")
  THEN IF get(node, "type") = Str("array") /\ HasKey(node, "items")
       THEN 1 + Size(node.d.items)
       ELSE IF get(node, "type") = Str("map") /\ HasKey(node, "values")
       THEN 1 + Size(node.d.values)
       ELSE IF get(node, "type") = Str("record")
       THEN 1 + SizeFields(FieldsOf(node), 1)
       ELSE 1
  ELSE 1

SizeAll(nodes, i) == IF i > Len(nodes) THEN 0 ELSE Size(nodes[i]) + SizeAll(nodes, i + 1)

SizeFields(fields, i) ==
  IF i > Len(fields) THEN 0
  ELSE (IF IsField(fields[i]) THEN Size(fields[i].d.type) ELSE 0)
         + SizeFields(fields, i + 1)

\* the names the records of a tree declare
RECURSIVE RecordNames(_)
RecordNames(node) ==
  IF isinstance(node, "list")
  THEN UNION {RecordNames(node.v[i]) : i \in 1..Len(node.v)}
  ELSE IF isinstance(node, "dict")
  THEN IF get(node, "type") = Str("array") /\ HasKey(node, "items")
       THEN RecordNames(node.d.items)
       ELSE IF get(node, "type") = Str("map") /\ HasKey(node, "values")
       THEN RecordNames(node.d.values)
       ELSE IF get(node, "type") = Str("record")
       THEN (IF HasKey(node, "name") THEN {node.d.name} ELSE {})
              \cup UNION {RecordNames(FieldsOf(node)[i].d.type) :
                            i \in {j \in 1..Len(FieldsOf(node)) : IsField(FieldsOf(node)[j])}}
       ELSE {}
  ELSE {}

\* C12: every conversion ends, by a return or by an exception, after no
\* more calls than the tree has nodes (no node is converted twice), and a
\* str that names a record of the tree is not followed: it converts to
\* {type: string}.
C12_Terminates ==
  /\ pc \in {"returned", "raised"}
       => /\ result # None
          /\ visits_record(avro_schema) <= Size(avro_schema)
  /\ \A p \in Pairs :
       p.node \in RecordNames(avro_schema)
         => p.frag = Attached([type |-> "string"], p.field)

\* the record that names itself in two of its fields was converted, the
\* two fields to {type: string} and to an array of it
C12_Witness ==
  /\ Returned
  /\ avro_schema = LinkedList
  /\ visits_record(avro_schema) = 6
  /\ PropOf(result, Str("next")) = [type |-> "string"]
  /\ PropOf(result, Str("children")) = [type |-> "array", items |-> [type |-> "string"]]

Assembled == main_pc = "assembled"

Producing == args # None /\ args.service = "producer"

Consuming == args # None /\ args.service = "consumer"

\* the payload of the message definition of an assembled document
PayloadOf(doc) == doc.components.messages["OrderCreated"].payload

\* the locator of the subject's latest schema at the caller's registry
LocatorAt(url) == url \o "/subjects/orders.created-value/versions/latest/schema"

\* the fetch gave no schema: urlopen or read() failed, the body is no JSON
\* text, or the body is an empty document
FetchFailed ==
  /\ response # None
  /\ \/ response.kind # "body"
     \/ ~response.body.json
     \/ ~Truthy(response.body.value)

\* C13: an assembled document of either role and payload mode has one
\* channel, one operation and one message definition; the action is send
\* for the producer and receive for the consumer; the operation refers to
\* that channel and to the channel's message, and the channel's message
\* refers to the message definition.
C13_OneChannelOneOperation ==
  Assembled =>
    LET channels   == spec.channels
        operations == spec.operations
        defined    == spec.components.messages
    IN /\ Cardinality(DOMAIN channels) = 1
       /\ Cardinality(DOMAIN operations) = 1
       /\ Cardinality(DOMAIN defined) = 1
       /\ \A c \in DOMAIN channels, o \in DOMAIN operations, m \in DOMAIN defined :
            /\ operations[o].action = IF Producing THEN "send" ELSE "receive"
            /\ operations[o].channel = Ref("#/channels/" \o c)
            /\ Cardinality(DOMAIN channels[c].messages) = 1
            /\ \A k \in DOMAIN channels[c].messages :
                 /\ operations[o].messages = <<Ref("#/channels/" \o c \o "/messages/" \o k)>>
                 /\ channels[c].messages[k] = Ref("#/components/messages/" \o m)

\* a consumer document whose operation receives from order-events
C13_Witness ==
  /\ Assembled
  /\ Consuming
  /\ DOMAIN spec.channels = {"order-events"}
  /\ spec.operations["receiveOrderCreated"].action = "receive"

\* C14: a producer run with inline false opens no URL, and its document's
\* payload is the avro-json schemaFormat with a schema that is only a $ref
\* to the locator at the caller's registry URL; nothing is inlined and
\* there is no components.schemas.
C14_ReferenceMode ==
  /\ (Producing /\ ~args.inline) => (requests = <<>> /\ response = None)
  /\ (Assembled /\ Producing /\ ~args.inline) =>
       /\ PayloadOf(spec) = [schemaFormat |-> AvroJson,
                             schema |-> Ref(LocatorAt(args.registry_url))]
       /\ DOMAIN spec.components = {"messages"}

\* a reference document built for a registry URL that is not the default
C14_Witness ==
  /\ Assembled
  /\ Producing
  /\ ~args.inline
  /\ args.registry_url # DefaultRegistryUrl
  /\ PayloadOf(spec).schema = Ref("http://localhost:18081/subjects/orders.created-value/versions/latest/schema")

\* C15: a producer run with inline whose fetch failed in any way still
\* ends with a document: its payload schema is the local schema document,
\* a warning was printed, and the payload holds no $ref and no empty schema.
C15_FallsBackOnAnyFailure ==
  (main_pc \in {"assembled", "raised"} /\ Producing /\ args.inline /\ FetchFailed) =>
    /\ main_pc = "assembled"
    /\ PayloadOf(spec).schema = local_file
    /\ Truthy(PayloadOf(spec).schema)
    /\ "$ref" \notin DOMAIN PayloadOf(spec).schema
    /\ stderr # <<>>

\* C16, as the specification states it: a document assembled with inline
\* carries the converted fragment as its inlined schema and holds it in
\* components.schemas; a reference document has no components.schemas.
C16_InlinedIsConverted ==
  /\ (Assembled /\ Producing /\ args.inline) =>
       /\ PayloadOf(spec).schema = avro_to_json_schema(order_created)
       /\ "schemas" \in DOMAIN spec.components
       /\ \E k \in DOMAIN spec.components.schemas :
            spec.components.schemas[k] = avro_to_json_schema(order_created)
  /\ (Assembled /\ Producing /\ ~args.inline) =>
       "schemas" \notin DOMAIN spec.components

\* C16, as the code has it: the producer's inlined schema is the source
\* Avro document (the fetched one, or the local one when the fetch gave
\* none) under the avro-json schemaFormat, and no producer document has
\* components.schemas; the consumer's document holds the converted fragment
\* of the local schema in components.schemas.OrderCreated and its payload
\* is a $ref to it.
C16_InlinedIsSource ==
  /\ (Assembled /\ Producing /\ args.inline) =>
       /\ PayloadOf(spec) =
            [schemaFormat |-> AvroJson,
             schema |-> IF Truthy(fetched_schema) THEN fetched_schema ELSE local_file]
       /\ "schemas" \notin DOMAIN spec.components
  /\ (Assembled /\ Producing /\ ~args.inline) =>
       "schemas" \notin DOMAIN spec.components
  /\ (Assembled /\ Consuming) =>
       /\ spec.components.schemas = ("OrderCreated" :> avro_to_json_schema(local_file))
       /\ PayloadOf(spec) = Ref("#/components/schemas/OrderCreated")

\* an inlined producer document that carries the registry's Avro record
C16_Witness ==
  /\ Assembled
  /\ Producing
  /\ args.inline
  /\ PayloadOf(spec).schema \in RegistrySchemas
  /\ PayloadOf(spec).schema # local_file

(* ---------------------- reading the published events -------------------- *)

RECURSIVE EventsOf(_, _)
\* the event types the handler of message i has published, in order
EventsOf(i, n) ==
  IF n = 0 THEN <<>>
  ELSE IF published[n].message = i
       THEN Append(EventsOf(i, n - 1), published[n].headers.event_type)
       ELSE EventsOf(i, n - 1)

Pipeline == <<"OrderAccepted", "OrderShipped", "OrderFulfilled">>

\* the events published before the step that failed
Before(step) ==
  CASE step = "validate" -> 0
    [] step = "accept"   -> 0
    [] step = "sleep"    -> 1
    [] step = "ship"     -> 1
    [] step = "fulfil"   -> 2

\* C17: for every message handled, the events published are a prefix of
\* OrderAccepted, OrderShipped, OrderFulfilled (each at most once, none
\* before its predecessor, OrderFulfilled last), each carries the order's
\* order_id as correlation_id in body and headers, a handler that returned
\* has published all three, and a handler that failed has raised and
\* published nothing after the step that failed.
C17_PipelineOrder ==
  /\ \A i \in DOMAIN task :
       LET events == EventsOf(i, Len(published))
       IN /\ Len(events) <= 3
          /\ events = SubSeq(Pipeline, 1, Len(events))
          /\ task[i].pc = "returned" => events = Pipeline
          /\ task[i].pc \in {"raised", "cancelled"} =>
               Len(events) = Before(task[i].failed_at)
          /\ task[i].pc = "raised" <=>
               (task[i].failed_at \in {"validate", "accept", "ship", "fulfil"})
  /\ \A n \in DOMAIN published :
       /\ published[n].event.correlation_id = messages[published[n].message].order_id
       /\ published[n].headers.correlation_id = messages[published[n].message].order_id
       /\ published[n].event.event_type = published[n].headers.event_type

\* one order went through all three steps while the handler of another
\* message raised after OrderAccepted
C17_Witness ==
  \E i, j \in DOMAIN task :
    /\ task[i].pc = "returned"
    /\ EventsOf(i, Len(published)) = Pipeline
    /\ task[j].pc = "raised"
    /\ task[j].failed_at = "ship"
    /\ EventsOf(j, Len(published)) = <<"OrderAccepted">>

====
